---- MODULE Spec2Model ----
(***************************************************************************)
(* Model of the GraphNode owning tree of cpp-style-guide.md: every node    *)
(* holds strong pointers (shared_ptr) to its children and a weak pointer   *)
(* (weak_ptr) to its parent.  The caller creates nodes with make_shared,   *)
(* keeps shared_ptr handles to them, calls append and remove through those *)
(* handles and may drop a handle at any time.  Spec runs every call as one  *)
(* step; SpecPlain adds nodes created as plain objects; SpecSteps runs the *)
(* calls statement by statement; SpecThreads runs two appends on the same  *)
(* child in two threads.  The sample programs of the repository have a     *)
(* specification each: SpecAsync (AsyncAndFuture), SpecSignals (the        *)
(* UnixSignalHandlers test), SpecResources (ResourceManagement) and        *)
(* SpecCollections (the vector functions of Collections).                  *)
(***************************************************************************)
EXTENDS Integers, Sequences, FiniteSets, TLC

\* Number of GraphNode objects the caller creates.
NumNodes == 3

\* Number of calls of the caller that are remembered.
MaxHist == 2

\* Longest children vector explored where nothing else limits it.
MaxChildren == 3
\* Appends the caller makes before it starts two threads.
MaxPrelude == 1

\* Iterations of the polling loop of AsyncAndFuture that are explored.
MaxLoops == 4

\* Lines of the longest file that loadString reads.
MaxLines == 2

\* Iterations of the send loop of the signal handler test that are explored.
MaxCount == 2

\* Signals other processes send to the signal handler test.
MaxSignals == 2

\* Local variables declared in the inner scope of ResourceManagement.
MaxLocals == 6

\* Calls of the vector functions of Collections that are explored.
MaxCalls == 4

Nodes == 1..NumNodes

\* An empty weak_ptr / the null result of weak_ptr::lock().
None == 0

\* The three nodes of the walk-through scenario: the first three created.
A == CHOOSE n \in Nodes : \A m \in Nodes : n <= m
B == A + 1
C == B + 1

VARIABLES
    children,   \* children[n]: std::vector<std::shared_ptr<GraphNode>> of node n
    parent,     \* parent[n]: the node the weak_ptr of n was assigned from, or None
    alive,      \* the GraphNode objects that have not been destroyed
    held,       \* the nodes the caller still holds a shared_ptr handle to
    hist,       \* the calls the caller has made, while there are at most MaxHist of them
    script,     \* number of walk-through calls completed, -1 once the caller left the walk-through
    plain,      \* the nodes created as plain objects, which no shared_ptr owns
    died,       \* the nodes destroyed by the last step
    th,         \* th[t]: the call thread t is executing, statement by statement
    mutex       \* the caller's lock: "off" when unused, "free", or the thread holding it

\* The sample programs, each a main() of its own: the locals of main, the
\* position of each thread of control, and what the program has printed.
VARIABLES
    asyncAndFuture,      \* the AsyncAndFuture sample
    signalTest,          \* the UnixSignalHandlers test
    resourceManagement,  \* the ResourceManagement sample
    collections          \* the Collections sample

samples == <<asyncAndFuture, signalTest, resourceManagement, collections>>

treeVars == <<children, parent, alive, held, hist, script, plain, died, th, mutex>>

vars == <<children, parent, alive, held, hist, script, plain, died, th, mutex,
          asyncAndFuture, signalTest, resourceManagement, collections>>

\* The threads of the caller.
Threads == {"t1", "t2"}

\* The tree as one value: the fields of every node, the caller's handles, the
\* plain objects, and whether an exception is propagating out of the call.
Tree == [ch |-> children, par |-> parent, al |-> alive, hd |-> held,
         pl |-> plain, ex |-> FALSE]

----------------------------------------------------------------------------
\* Helpers on sequences

Range(s) == { s[i] : i \in 1..Len(s) }

\* Number of occurrences of x in s.
Count(s, x) == Cardinality({ i \in 1..Len(s) : s[i] = x })

\* Variant: the result of remove_if is never erased, every element stays.
EraseNone(s, node) == s

\* children.erase( std::remove_if( ..., child.get() == node ), children.end() ):
\* drops every element equal to node and keeps the others in order.
EraseIf(s, node) == SelectSeq(s, LAMBDA child : child # node)

----------------------------------------------------------------------------
\* shared_ptr / weak_ptr semantics

\* use_count of n: the caller's handle plus one per entry in a live node's children.
RECURSIVE SumCount(_, _, _)
SumCount(g, n, S) ==
    IF S = {} THEN 0
    ELSE LET m == CHOOSE x \in S : TRUE
         IN  Count(g.ch[m], n) + SumCount(g, n, S \ {m})

\* Variant: the parent references of the children count as owners too.
UseCountWithWeak(g, n) ==
    (IF n \in g.hd THEN 1 ELSE 0) + SumCount(g, n, g.al)
        + Cardinality({ c \in g.al : g.par[c] = n })

UseCount(g, n) == (IF n \in g.hd THEN 1 ELSE 0) + SumCount(g, n, g.al)

\* Destruction of every live node whose use_count is zero; destroying a node
\* destroys its children vector, which releases its children in turn.  The
\* weak pointers of the survivors are left as they are: they expire.
\* Variant: the nodes without a holder are destroyed, their children are not.
ReleaseOnce(g) ==
    LET dead == { n \in g.al : UseCount(g, n) = 0 }
    IN  [g EXCEPT !.al = g.al \ dead,
                  !.ch = [n \in Nodes |-> IF n \in dead THEN <<>> ELSE g.ch[n]],
                  !.par = [n \in Nodes |-> IF n \in dead THEN None ELSE g.par[n]]]

RECURSIVE Release(_)
Release(g) ==
    LET dead == { n \in g.al : UseCount(g, n) = 0 }
    IN  IF dead = {} THEN g
        ELSE Release([g EXCEPT !.al = g.al \ dead,
                               !.ch = [n \in Nodes |-> IF n \in dead THEN <<>> ELSE g.ch[n]],
                               !.par = [n \in Nodes |-> IF n \in dead THEN None ELSE g.par[n]]])

\* Variant: a plain pointer to the parent, which does not notice its destruction.
LockDangling(g, n) == g.par[n]

\* parent.lock(): the parent if it still exists, else null.
Lock(g, n) == IF g.par[n] # None /\ g.par[n] \in g.al THEN g.par[n] ELSE None

\* What shared_from_this() yields for an object no shared_ptr owns: libc++
\* builds the shared_ptr from the empty weak_this and throws std::bad_weak_ptr.
BadWeakPtr == None - 1

\* shared_from_this(): the node itself when a shared_ptr owns it.
shared_from_this(g, self) == IF self \in g.pl THEN BadWeakPtr ELSE self

\* The exception leaves the call with the tree as it is.
Throw(g) == [g EXCEPT !.ex = TRUE]

----------------------------------------------------------------------------
\* GraphNode methods, as functions from the tree at entry to the tree at return

\* Variant: the child is erased but its parent reference is not reset.
\* Variant: the erase empties the children instead of removing the one node.
removeEraseAll(g, self, node) ==
    IF Lock(g, node) = shared_from_this(g, self)
    THEN Release([g EXCEPT !.par[node] = None, !.ch[self] = <<>>])
    ELSE g

removeNoReset(g, self, node) ==
    IF Lock(g, node) = shared_from_this(g, self)
    THEN Release([g EXCEPT !.ch[self] = EraseIf(g.ch[self], node)])
    ELSE g

\* Variant: no check that self is the parent of node.
removeUnguarded(g, self, node) ==
    LET g1 == [g EXCEPT !.par[node] = None]
        g2 == [g1 EXCEPT !.ch[self] = EraseIf(g1.ch[self], node)]
    IN  Release(g2)

remove(g, self, node) ==
    IF shared_from_this(g, self) = BadWeakPtr THEN Throw(g)
    ELSE IF Lock(g, node) = shared_from_this(g, self)
    THEN LET g1 == [g EXCEPT !.par[node] = None]
             g2 == [g1 EXCEPT !.ch[self] = EraseIf(g1.ch[self], node)]
         IN  Release(g2)
    ELSE g

\* Variant: the previous parent is not told to remove the node.
setParentNoDetach(g, self, node) == [g EXCEPT !.par[self] = node]

setParent(g, self, node) ==
    LET previous_parent == Lock(g, self)
        g1 == IF previous_parent # None
              THEN remove(g, previous_parent, self)
              ELSE g
    IN  [g1 EXCEPT !.par[self] = node]

\* Variant: the child is pushed but setParent is not called.
appendPushOnly(g, self, node) == [g EXCEPT !.ch[self] = Append(g.ch[self], node)]

\* Variant: setParent is called but the child is not pushed.
appendSetParentOnly(g, self, node) == setParent(g, node, shared_from_this(g, self))

\* Variant: the child is inserted at the front of the children.
appendFront(g, self, node) ==
    LET g1 == [g EXCEPT !.ch[self] = <<node>> \o g.ch[self]]
    IN  setParent(g1, node, shared_from_this(g1, self))

append(g, self, node) ==
    LET g1 == [g EXCEPT !.ch[self] = Append(g.ch[self], node)]
    IN  IF shared_from_this(g1, self) = BadWeakPtr THEN Throw(g1)
        ELSE setParent(g1, node, shared_from_this(g1, self))

----------------------------------------------------------------------------
\* The walk-through: append(A,B); append(A,C); append(B,C); B.remove(C)

ScriptStep(op, self, node) ==
    IF      script = 0 /\ op = "append" /\ self = A /\ node = B THEN 1
    ELSE IF script = 1 /\ op = "append" /\ self = A /\ node = C THEN 2
    ELSE IF script = 2 /\ op = "append" /\ self = B /\ node = C THEN 3
    ELSE IF script = 3 /\ op = "remove" /\ self = B /\ node = C THEN 4
    ELSE -1

\* The record of the caller's calls: forgotten once it is longer than MaxHist.
Lost == << [op |-> "lost", self |-> None, node |-> None] >>

Call(op, self, node) == [op |-> op, self |-> self, node |-> node]

Record(op, self, node) ==
    IF hist # Lost /\ Len(hist) < MaxHist
    THEN Append(hist, Call(op, self, node))
    ELSE Lost

----------------------------------------------------------------------------
\* The sample programs: state at the start of main

\* AsyncAndFuture: bool running = true; auto loop_count = 0; future_text is
\* not yet connected; loadString has not been started.
\* got_at is the value of loop_count when future_text.get() was called.
AsyncStart ==
    [pc |-> "async", running |-> TRUE, loop_count |-> 0, valid |-> FALSE,
     status |-> "none", text |-> << >>, gets |-> 0, got_at |-> 0,
     task |-> [pc |-> "idle", is_open |-> FALSE, lines |-> 0, text |-> << >>]]

\* The signal handler test: both signals have their default disposition, no
\* handler is running, no signal is pending, there is no connection.
\* cause is the signal that ended the process, sent the number of signals
\* other processes have sent, ignored the number of "Ignoring SIGPIPE
\* signal." lines printed.
SignalStart ==
    [pc |-> "start", installed |-> 0, count |-> 0,
     disposition |-> [sg \in {"SIGPIPE", "SIGTERM"} |-> "SIG_DFL"],
     handlers |-> << >>, pending |-> {}, peer |-> "none",
     status |-> "running", exit_code |-> -1, cause |-> "none",
     sent |-> 0, ignored |-> 0, term_logged |-> FALSE, garbled |-> FALSE,
     send_failed |-> FALSE]

\* ResourceManagement: the counter is 0, the inner scope is entered and has
\* no local yet.  locals lists the variables of the scope in declaration
\* order, each with the DummyObject it refers to (0 for none); live is the
\* set of DummyObjects constructed and not destroyed; scope_was keeps the
\* locals as they were when the scope was left.
ResourceStart ==
    [pc |-> "scope", counter |-> 0, locals |-> << >>, live |-> {},
     created |-> 0, printed_created |-> -1, printed_remaining |-> -1,
     scope_was |-> << >>]

\* Collections: the global numberVector is empty and main has called
\* nothing.  Floats are kept in tenths.  fresh tells that numberVector is as
\* vectorAssignment left it; read and at5 are the values numberVector[5] and
\* numberVector.at( 5 ) yielded in the running vectorRetrieval; caught tells
\* that its catch block ran.
CollectionsStart ==
    [version |-> "none", pc |-> "start", numberVector |-> << >>, i |-> 0,
     remove_begin |-> 0, calls |-> 0, fresh |-> FALSE, status |-> "running",
     read |-> -1, at5 |-> -1, caught |-> FALSE]

----------------------------------------------------------------------------
\* Specification

Install(g) ==
    /\ children' = g.ch
    /\ parent' = g.par
    /\ alive' = g.al
    /\ held' = g.hd
    /\ plain' = g.pl
    /\ died' = alive \ g.al

\* A thread that executes no call.  A frame holds the call (op, self, node),
\* the local previous_parent of setParent (prev), the weak_ptr that lock() was
\* called on (old), and the stack of functions with the next statement of each.
IdleFrame == [op |-> "none", kind |-> "call", self |-> None, node |-> None,
              prev |-> None, old |-> None, stack |-> <<>>]

\* The sample programs before their first statement.
SamplesStart ==
    /\ asyncAndFuture = AsyncStart
    /\ signalTest = SignalStart
    /\ resourceManagement = ResourceStart
    /\ collections = CollectionsStart

\* Every node was created by make_shared and is still held by the caller.
Init ==
    /\ children = [n \in Nodes |-> <<>>]
    /\ parent = [n \in Nodes |-> None]
    /\ alive = Nodes
    /\ held = Nodes
    /\ hist = <<>>
    /\ script = 0
    /\ plain = {}
    /\ died = {}
    /\ th = [t \in Threads |-> IdleFrame]
    /\ mutex = "off"
    /\ SamplesStart

\* p->append( c ): p is a node of the caller, c a shared_ptr of the caller.
CanAppend(p, c) == p \in held /\ c \in held /\ c \notin plain

CallAppend(p, c) ==
    /\ CanAppend(p, c)
    /\ LET g == append(Tree, p, c) IN Install(g)
    /\ hist' = Record("append", p, c)
    /\ script' = ScriptStep("append", p, c)
    /\ UNCHANGED <<th, mutex>>
    /\ UNCHANGED samples

\* p->remove( c ): p is a node of the caller, c a raw pointer to a live node.
CanRemove(p, c) == p \in held /\ c \in alive

CallRemove(p, c) ==
    /\ CanRemove(p, c)
    /\ LET g == remove(Tree, p, c) IN Install(g)
    /\ hist' = Record("remove", p, c)
    /\ script' = ScriptStep("remove", p, c)
    /\ UNCHANGED <<th, mutex>>
    /\ UNCHANGED samples

\* The caller's handle to n (or the plain object n) goes out of scope.
Drop(n) ==
    /\ n \in held
    /\ LET g == Release([Tree EXCEPT !.hd = held \ {n}]) IN Install(g)
    /\ hist' = Record("drop", None, n)
    /\ script' = -1
    /\ UNCHANGED <<th, mutex>>
    /\ UNCHANGED samples

Next ==
    \/ \E p \in Nodes, c \in Nodes : CallAppend(p, c)
    \/ \E p \in Nodes, c \in Nodes : CallRemove(p, c)
    \/ \E n \in Nodes : Drop(n)

Spec == Init /\ [][Next]_vars

\* The caller created some of the nodes as plain objects (GraphNode n;).
InitPlain ==
    /\ children = [n \in Nodes |-> <<>>]
    /\ parent = [n \in Nodes |-> None]
    /\ alive = Nodes
    /\ held = Nodes
    /\ hist = <<>>
    /\ script = 0
    /\ plain \in SUBSET Nodes
    /\ died = {}
    /\ th = [t \in Threads |-> IdleFrame]
    /\ mutex = "off"
    /\ SamplesStart

\* An append on a plain object throws after the push, so repeated appends
\* grow its children without limit: the checked runs stop at MaxChildren.
Bounded == \A n \in Nodes : Len(children[n]) <= MaxChildren

NextPlain == Next /\ Bounded'

SpecPlain == InitPlain /\ [][NextPlain]_vars

TypeOK ==
    /\ children \in [Nodes -> Seq(Nodes)]
    /\ parent \in [Nodes -> Nodes \cup {None}]
    /\ alive \subseteq Nodes
    /\ held \subseteq alive
    /\ script \in -1..4
    /\ plain \subseteq Nodes
    /\ died \subseteq Nodes


----------------------------------------------------------------------------
\* The methods statement by statement

\* Variant: setParent runs before the child is pushed.
appendBodySetParentFirst == << "call_setParent", "push" >>

\* append: children.push_back( node ); node->setParent( shared_from_this() );
appendBody == << "push", "call_setParent" >>

\* Variant: parent = node is assigned before the previous parent removes the node.
setParentBodyAssignFirst == << "lock", "assign", "call_remove" >>

\* Variant: the previous parent is never asked to remove the node.
setParentBodyNoDetach == << "lock", "assign" >>

\* setParent: previous_parent = parent.lock(); if( previous_parent )
\* previous_parent->remove( this ); parent = node;
setParentBody == << "lock", "call_remove", "assign" >>

\* Variant: the child is erased before its parent reference is reset.
removeBodyEraseFirst == << "guard", "erase", "reset" >>

\* remove: if( node->parent.lock() == shared_from_this() ) { node->parent.reset();
\* children.erase( ... ); }
removeBody == << "guard", "reset", "erase" >>

\* The body of a thread that takes the caller's lock around its append.
lockedBody == << "acquire", "call_append", "release" >>

Body(fn) ==
    CASE fn = "append"    -> appendBody
      [] fn = "setParent" -> setParentBody
      [] fn = "remove"    -> removeBody
      [] fn = "locked"    -> lockedBody
      [] fn = "done"      -> << "return" >>

Entry(fn) == [fn |-> fn, i |-> 1]

\* The call has run its last statement and is about to return to the caller.
DoneStack == << Entry("done") >>

\* The statement a frame executes next.
Stmt(f) == Body(Head(f.stack).fn)[Head(f.stack).i]

\* Functions that have run their last statement return.
RECURSIVE Unwind(_)
Unwind(stack) ==
    IF stack = <<>> THEN DoneStack
    ELSE IF Head(stack).i > Len(Body(Head(stack).fn)) THEN Unwind(Tail(stack))
    ELSE stack

\* The stack after the current statement: go on with the next statement,
\* enter a function, or leave the current function.
Advance(stack) ==
    Unwind(<< [Head(stack) EXCEPT !.i = @ + 1] >> \o Tail(stack))

Enter(stack, fn) ==
    << Entry(fn) >> \o << [Head(stack) EXCEPT !.i = @ + 1] >> \o Tail(stack)

Leave(stack) == Unwind(Tail(stack))

\* The node the running remove was called on: previous_parent inside
\* setParent, the receiver of the caller's own remove otherwise.
Receiver(f) == IF f.op = "append" THEN f.prev ELSE f.self

\* One statement of frame f on the tree g: the tree and the frame it leaves.
\* Within a call the caller's handles keep the receiver and the appended node
\* alive, so the locals of the call keep nothing alive on their own.
Exec(g, f) ==
    LET stmt == Stmt(f)
        go   == [f EXCEPT !.stack = Advance(f.stack)]
    IN  CASE stmt = "push" ->
                [g |-> [g EXCEPT !.ch[f.self] = Append(g.ch[f.self], f.node)],
                 f |-> go]
          [] stmt = "call_setParent" ->
                IF shared_from_this(g, f.self) = BadWeakPtr
                THEN [g |-> g, f |-> IdleFrame]
                ELSE [g |-> g, f |-> [f EXCEPT !.stack = Enter(f.stack, "setParent")]]
          [] stmt = "lock" ->
                [g |-> g,
                 f |-> [go EXCEPT !.prev = Lock(g, f.node), !.old = g.par[f.node]]]
          [] stmt = "call_remove" ->
                IF f.prev # None
                THEN [g |-> g, f |-> [f EXCEPT !.stack = Enter(f.stack, "remove")]]
                ELSE [g |-> g, f |-> go]
          [] stmt = "guard" ->
                IF shared_from_this(g, Receiver(f)) = BadWeakPtr
                THEN [g |-> g, f |-> IdleFrame]
                ELSE IF Lock(g, f.node) = shared_from_this(g, Receiver(f))
                THEN [g |-> g, f |-> go]
                ELSE [g |-> g, f |-> [f EXCEPT !.stack = Leave(f.stack)]]
          [] stmt = "reset" ->
                [g |-> [g EXCEPT !.par[f.node] = None], f |-> go]
          [] stmt = "erase" ->
                [g |-> Release([g EXCEPT !.ch[Receiver(f)] =
                                            EraseIf(g.ch[Receiver(f)], f.node)]),
                 f |-> go]
          [] stmt = "assign" ->
                [g |-> [g EXCEPT !.par[f.node] = f.self], f |-> go]
          [] stmt = "call_append" ->
                [g |-> g, f |-> [f EXCEPT !.stack = Enter(f.stack, "append")]]
          [] stmt \in {"acquire", "release"} ->
                [g |-> g, f |-> go]
          [] stmt = "return" ->
                [g |-> g, f |-> IdleFrame]

NewFrame(kind, op, self, node, fn) ==
    [op |-> op, kind |-> kind, self |-> self, node |-> node,
     prev |-> None, old |-> None, stack |-> << Entry(fn) >>]

Idle == \A t \in Threads : th[t] = IdleFrame

\* The caller's single thread.
Main == "t1"

\* The caller starts p->append( c ) or p->remove( c ).
BeginAppend(p, c) ==
    /\ Idle
    /\ CanAppend(p, c)
    /\ th' = [th EXCEPT ![Main] = NewFrame("call", "append", p, c, "append")]
    /\ died' = {}
    /\ UNCHANGED <<children, parent, alive, held, hist, script, plain, mutex>>
    /\ UNCHANGED samples

BeginRemove(p, c) ==
    /\ Idle
    /\ CanRemove(p, c)
    /\ th' = [th EXCEPT ![Main] = NewFrame("call", "remove", p, c, "remove")]
    /\ died' = {}
    /\ UNCHANGED <<children, parent, alive, held, hist, script, plain, mutex>>
    /\ UNCHANGED samples

\* Thread t executes its next statement.  A finished thread stays finished;
\* acquire waits for the lock.
Step(t) ==
    /\ th[t].stack # <<>>
    /\ ~(th[t].kind = "thread" /\ th[t].stack = DoneStack)
    /\ Stmt(th[t]) = "acquire" => mutex = "free"
    /\ LET r == Exec(Tree, th[t])
       IN  /\ Install(r.g)
           /\ th' = [th EXCEPT ![t] = r.f]
    /\ mutex' = CASE Stmt(th[t]) = "acquire" -> t
                  [] Stmt(th[t]) = "release" -> "free"
                  [] OTHER -> mutex
    /\ UNCHANGED <<hist, script>>
    /\ UNCHANGED samples

\* Between calls a handle of the caller may go out of scope.
DropIdle(n) ==
    /\ Idle
    /\ n \in held
    /\ LET g == Release([Tree EXCEPT !.hd = held \ {n}]) IN Install(g)
    /\ UNCHANGED <<hist, script, th, mutex>>
    /\ UNCHANGED samples

NextSteps ==
    \/ \E p \in Nodes, c \in Nodes : BeginAppend(p, c)
    \/ \E p \in Nodes, c \in Nodes : BeginRemove(p, c)
    \/ Step(Main)
    \/ \E n \in Nodes : DropIdle(n)

SpecSteps == Init /\ [][NextSteps]_vars

\* Two threads of the caller: after at most MaxPrelude appends of its own the
\* caller starts one thread running p1->append( c ) and one running
\* p2->append( c ), both with a lock around the call or both without, and
\* makes no further call.  The threads interleave statement by statement.
Prelude ==
    /\ Idle
    /\ Len(hist) < MaxPrelude
    /\ \E p \in Nodes, c \in Nodes : CallAppend(p, c)

ThreadFrame(t, p1, p2, c, lk) ==
    NewFrame("thread", "append", IF t = Main THEN p1 ELSE p2, c,
             IF lk THEN "locked" ELSE "append")

Spawn(p1, p2, c, lk) ==
    /\ Idle
    /\ p1 # p2
    /\ CanAppend(p1, c)
    /\ CanAppend(p2, c)
    /\ th' = [t \in Threads |-> ThreadFrame(t, p1, p2, c, lk)]
    /\ mutex' = IF lk THEN "free" ELSE "off"
    /\ died' = {}
    /\ UNCHANGED <<children, parent, alive, held, hist, script, plain>>
    /\ UNCHANGED samples

NextThreads ==
    \/ Prelude
    \/ \E p1 \in Nodes, p2 \in Nodes, c \in Nodes, lk \in BOOLEAN : Spawn(p1, p2, c, lk)
    \/ \E t \in Threads : Step(t)

SpecThreads == Init /\ [][NextThreads]_vars

\* The frame of the caller's thread and what it is doing.
Cur == th[Main]

InCall(op) == Cur.op = op /\ Cur.stack # <<>>

At(stmt) == Cur.stack # <<>> /\ Stmt(Cur) = stmt

----------------------------------------------------------------------------
\* Vocabulary of the properties

\* b is listed in the children collection of a, in the tree g and now.
ListedIn(g, a, b) == b \in Range(g.ch[a])

Listed(a, b) == ListedIn(Tree, a, b)

\* The node the parent reference of n resolves to, or None when it is absent or expired.
ParentOf(n) == Lock(Tree, n)

\* The nodes that list b as a child.
ParentsListing(b) == { a \in Nodes : Listed(a, b) }

----------------------------------------------------------------------------
\* C1: Single-parent invariant - after any sequence of append and remove
\* calls (and dropped handles), every node is listed in the children
\* collection of at most one node.
SingleParent == \A b \in Nodes : Cardinality(ParentsListing(b)) <= 1

\* A node that was appended to one parent and then to another is listed once.
SingleParentWitness ==
    /\ hist = << Call("append", A, C), Call("append", B, C) >>
    /\ ParentsListing(C) = {B}

\* C2: Child-to-parent consistency - in every state, if b is listed in the
\* children of a then the parent reference of b resolves to a.
ChildParentConsistent ==
    \A a \in Nodes, b \in Nodes : Listed(a, b) => ParentOf(b) = a

ChildParentConsistentWitness ==
    /\ hist = << Call("append", A, B), Call("append", B, C) >>
    /\ Listed(A, B) /\ ParentOf(B) = A
    /\ Listed(B, C) /\ ParentOf(C) = B

\* C3: Append establishes linkage - in every reachable state, for distinct p
\* and c where c resolves to no parent and is listed nowhere, the tree that
\* p->append(c) leaves has c in the children of p and the parent reference of
\* c resolving to p.
Unlinked(c) == ParentOf(c) = None /\ ParentsListing(c) = {}

AppendEstablishesLinkage ==
    \A p \in Nodes, c \in Nodes :
        (CanAppend(p, c) /\ p # c /\ Unlinked(c))
            => LET g == append(Tree, p, c)
               IN  ListedIn(g, p, c) /\ Lock(g, c) = p

AppendEstablishesLinkageWitness ==
    /\ hist = << Call("append", A, B) >>
    /\ Listed(A, B)
    /\ ParentOf(B) = A

\* C4: Re-parenting removes the old linkage - in every reachable state, for
\* p1 # p2 and c a child of p1, the tree that p2->append(c) leaves has c
\* absent from the children of p1, present in the children of p2, and the
\* parent reference of c resolving to p2.
ReparentRemovesOldLinkage ==
    \A p1 \in Nodes, p2 \in Nodes, c \in Nodes :
        (CanAppend(p2, c) /\ p1 # p2 /\ Listed(p1, c) /\ ParentOf(c) = p1)
            => LET g == append(Tree, p2, c)
               IN  ~ListedIn(g, p1, c) /\ ListedIn(g, p2, c) /\ Lock(g, c) = p2

ReparentRemovesOldLinkageWitness ==
    /\ hist = << Call("append", B, C), Call("append", A, C) >>
    /\ ~Listed(B, C)
    /\ Listed(A, C)
    /\ ParentOf(C) = A

\* C5: Remove clears both sides - in every reachable state, for a node c
\* whose parent reference resolves to p, the tree that p->remove(c) leaves
\* has c absent from the children of p and the parent reference of c absent.
RemoveClearsBothSides ==
    \A p \in Nodes, c \in Nodes :
        (CanRemove(p, c) /\ ParentOf(c) = p)
            => LET g == remove(Tree, p, c)
               IN  ~ListedIn(g, p, c) /\ Lock(g, c) = None /\ g.par[c] = None

RemoveClearsBothSidesWitness ==
    /\ hist = << Call("append", A, B), Call("remove", A, B) >>
    /\ ~Listed(A, B)
    /\ ParentOf(B) = None

\* C6: Remove is a no-op for a non-matching parent - in every reachable
\* state, if the parent reference of c does not resolve to x (it resolves to
\* another node, is absent or has expired), x->remove(c) leaves every
\* children collection, every parent reference and every object as it was.
RemoveNonMatchingIsNoOp ==
    \A x \in Nodes, c \in Nodes :
        (CanRemove(x, c) /\ ParentOf(c) # x) => remove(Tree, x, c) = Tree

RemoveNonMatchingIsNoOpWitness ==
    /\ hist = << Call("append", A, C), Call("remove", B, C) >>
    /\ children[A] = << C >>
    /\ ParentOf(C) = A

\* C7: Concrete scenario - from fresh nodes, append(A,B); append(A,C);
\* append(B,C); B.remove(C) passes through exactly the states
\* A.children=[B], B.parent=A; then A.children=[B,C]; then A.children=[B],
\* B.children=[C], C.parent=B; and ends with A.children=[B], B.children=[],
\* C.parent absent.
Shape(chA, chB, chC, parA, parB, parC) ==
    /\ children[A] = chA /\ children[B] = chB /\ children[C] = chC
    /\ ParentOf(A) = parA /\ ParentOf(B) = parB /\ ParentOf(C) = parC

ScenarioTrace ==
    /\ script = 0 => Shape(<<>>, <<>>, <<>>, None, None, None)
    /\ script = 1 => Shape(<<B>>, <<>>, <<>>, None, A, None)
    /\ script = 2 => Shape(<<B, C>>, <<>>, <<>>, None, A, A)
    /\ script = 3 => Shape(<<B>>, <<C>>, <<>>, None, A, B)
    /\ script = 4 => Shape(<<B>>, <<>>, <<>>, None, A, None)

ScenarioTraceWitness ==
    /\ script = 4
    /\ children[A] = <<B>>
    /\ children[B] = <<>>
    /\ C \in alive

\* C8: Append postcondition in every state - for every pair p, c (also when
\* c is already a child of p), after p->append(c) the node c is the last
\* element of the children of p and its parent reference resolves to p.
AppendPostcondition ==
    [][ \A p \in Nodes, c \in Nodes :
          CallAppend(p, c)
              => (/\ Len(children[p]) > 0
                  /\ children[p][Len(children[p])] = c
                  /\ ParentOf(c) = p)' ]_vars

\* C9: Mutual consistency - in every state, the parent reference of b
\* resolves to a if and only if b is listed in the children of a.
MutualConsistency ==
    \A a \in Nodes, b \in Nodes : (ParentOf(b) = a) <=> Listed(a, b)

\* C10: Acyclicity - no node is its own ancestor: following parent
\* references from a node never returns to it, and no node is among its own
\* descendants.
RECURSIVE ReachUp(_, _)
ReachUp(S, k) ==
    IF k = 0 THEN S
    ELSE ReachUp(S \cup ({ ParentOf(n) : n \in S } \ {None}), k - 1)

RECURSIVE ReachDown(_, _)
ReachDown(S, k) ==
    IF k = 0 THEN S
    ELSE ReachDown(S \cup UNION { Range(children[n]) : n \in S }, k - 1)

Ancestors(n) == ReachUp({ParentOf(n)} \ {None}, NumNodes)

Descendants(n) == ReachDown(Range(children[n]), NumNodes)

Acyclic == \A n \in Nodes : n \notin Ancestors(n) /\ n \notin Descendants(n)

----------------------------------------------------------------------------
\* C11: Weak back-reference - the parent reference of a child never counts
\* as an owner of the parent: a node whose only remaining references are the
\* parent references of its children (no handle of the caller, listed by no
\* node) is destroyed, and from then on the parent reference of each
\* surviving child resolves to absent.
ReferredOnlyWeakly(p) ==
    /\ \E c \in alive : parent[c] = p
    /\ p \notin held
    /\ ParentsListing(p) = {}

WeakBackReference ==
    \A p \in Nodes :
        ReferredOnlyWeakly(p)
            => /\ p \notin alive
               /\ \A c \in alive : parent[c] = p => ParentOf(c) = None

WeakBackReferenceWitness ==
    /\ hist = << Call("append", A, B), Call("drop", None, A) >>
    /\ died = {A}
    /\ B \in alive
    /\ parent[B] = A
    /\ ParentOf(B) = None

\* C12: Ownership cascade - whenever a node is destroyed, every node in its
\* children that has no other strong holder is destroyed as well,
\* transitively; no live node is left without a live strong holder (listed
\* only by a destroyed node).
HasLiveHolder(g, n) == n \in g.hd \/ \E a \in g.al : ListedIn(g, a, n)

\* The tree g1 that a step leaves from the tree g0 destroys the orphans of
\* every node it destroys.
Cascades(g0, g1) ==
    \A d \in g0.al \ g1.al : \A c \in Range(g0.ch[d]) :
        ~HasLiveHolder(g1, c) => c \notin g1.al

OwnershipCascade ==
    /\ \A n \in alive : HasLiveHolder(Tree, n)
    /\ \A n \in held : Cascades(Tree, Release([Tree EXCEPT !.hd = held \ {n}]))
    /\ \A p \in Nodes, c \in Nodes :
          CanRemove(p, c) => Cascades(Tree, remove(Tree, p, c))

\* One dropped handle destroyed a node and the child it owned.
OwnershipCascadeWitness ==
    /\ died = {A, B}
    /\ A \notin alive
    /\ B \notin alive
    /\ C \in alive

\* C17: Children order is insertion order - append places the child at the
\* end of the children of the parent, and both remove and the detach done
\* during re-parenting delete only the target child and keep the relative
\* order of the remaining children.
OrderKept(g0, g1, q, c) == g1.ch[q] = EraseIf(g0.ch[q], c)

ChildrenInsertionOrder ==
    \A p \in Nodes, c \in Nodes :
        /\ CanAppend(p, c)
              => LET g == append(Tree, p, c)
                 IN  /\ g.ch[p] = Append(EraseIf(children[p], c), c)
                     /\ \A q \in Nodes \ {p} : OrderKept(Tree, g, q, c)
        /\ CanRemove(p, c)
              => LET g == remove(Tree, p, c)
                 IN  \A q \in g.al :
                        IF q = p /\ ParentOf(c) = p
                        THEN OrderKept(Tree, g, q, c)
                        ELSE g.ch[q] = children[q]

\* C18: No duplicate children - after any sequence of completed calls, each
\* node appears at most once in any single children collection, also when
\* the same child is appended to the same parent repeatedly.
NoDuplicateChildren ==
    \A a \in Nodes, b \in Nodes : Count(children[a], b) <= 1

NoDuplicateChildrenWitness ==
    /\ hist = << Call("append", A, B), Call("append", A, B) >>
    /\ Count(children[A], B) <= 1
    /\ ParentOf(B) = A

----------------------------------------------------------------------------
\* C13: No error path - for every pair of live nodes of the caller, whether
\* the receiver is owned by a shared_ptr or was created as a plain object,
\* append and remove run to completion without throwing and never leave the
\* tree partially updated (the child pushed, its parent reference not set).
NoErrorPath ==
    \A p \in Nodes, c \in Nodes :
        /\ CanAppend(p, c)
              => LET g == append(Tree, p, c)
                 IN  ~g.ex /\ (ListedIn(g, p, c) => Lock(g, c) = p)
        /\ CanRemove(p, c) => ~remove(Tree, p, c).ex

----------------------------------------------------------------------------
\* C14: Detach before attach - within p2->append(c) where c is a child of
\* p1 # p2, at no intermediate step is c listed in the children of both p1
\* and p2.
DetachBeforeAttach ==
    InCall("append")
        => \A p1 \in Nodes \ {Cur.self} :
              ~(Listed(p1, Cur.node) /\ Listed(Cur.self, Cur.node))

\* C16: During p2->append(c) re-parenting c from p1, there is no
\* intermediate step at which the parent reference of c already resolves to
\* p2 while the children of p1 still list c.
ParentAssignedAfterDetach ==
    InCall("append")
        => \A p1 \in Nodes \ {Cur.self} :
              ~(ParentOf(Cur.node) = Cur.self /\ Listed(p1, Cur.node))

\* B->append(C) has made the previous parent A erase C and is about to assign.
ParentAssignedAfterDetachWitness ==
    /\ At("assign")
    /\ Cur.self = B /\ Cur.node = C /\ Cur.prev = A
    /\ ~Listed(A, C)
    /\ Listed(B, C)
    /\ ParentOf(C) = None

\* C19: Appending after the old parent is gone - if the former parent of c
\* was destroyed while the caller still holds c, p2->append(c) treats c as
\* unparented: no remove runs on a destroyed node, and the call ends with c
\* in the children of p2 and its parent reference resolving to p2.
RemoveRunning == Cur.stack # <<>> /\ Head(Cur.stack).fn = "remove"

AppendAfterParentGone ==
    /\ RemoveRunning => Receiver(Cur) \in alive
    /\ (At("return") /\ Cur.op = "append" /\ Cur.old # None /\ Cur.old \notin alive)
          => /\ Cur.prev = None
             /\ Listed(Cur.self, Cur.node)
             /\ ParentOf(Cur.node) = Cur.self

AppendAfterParentGoneWitness ==
    /\ At("return")
    /\ Cur.op = "append" /\ Cur.self = B /\ Cur.node = C
    /\ Cur.old = A
    /\ A \notin alive
    /\ children[B] = << C >>
    /\ ParentOf(C) = B

\* C20: Remove step order and memory safety - remove resets the parent
\* reference of the child first and erases the child second, and the child is
\* alive at every statement that reads or writes it, also when the erase
\* destroys it.
RemoveOrderAndSafety ==
    /\ (At("guard") \/ At("reset") \/ At("assign")) => Cur.node \in alive
    /\ At("erase") => Cur.node \in alive /\ parent[Cur.node] = None

\* A->remove(B) has erased B, which only A held, and returns.
RemoveOrderAndSafetyWitness ==
    /\ At("return")
    /\ Cur.op = "remove" /\ Cur.self = A /\ Cur.node = B
    /\ died = {B}
    /\ B \notin alive

----------------------------------------------------------------------------
\* C15: Unsynchronised concurrent use is unsafe - two threads running
\* p1->append( c ) and p2->append( c ) interleaved statement by statement
\* with no lock can end with c listed in the children of both p1 and p2, or
\* with its parent reference disagreeing with the collections; when each call
\* holds one lock for its whole duration no such final state is reachable.
ThreadsDone ==
    \A t \in Threads : th[t].kind = "thread" /\ th[t].stack = DoneStack

Torn(p1, p2, c) ==
    \/ Listed(p1, c) /\ Listed(p2, c)
    \/ \E p \in Nodes : Listed(p, c) # (ParentOf(c) = p)
    \/ Cardinality(ParentsListing(c)) # 1

LockedAppendsAtomic ==
    (ThreadsDone /\ mutex # "off")
        => ~Torn(th["t1"].self, th["t2"].self, th["t1"].node)

\* Without a lock both threads can push c before either looks at its parent.
UnlockedAppendsTornWitness ==
    /\ ThreadsDone
    /\ mutex = "off"
    /\ hist = << >>
    /\ th["t1"].self = A /\ th["t2"].self = B /\ th["t1"].node = C
    /\ Listed(A, C)
    /\ Listed(B, C)

----------------------------------------------------------------------------
\* C21: Child stays alive across re-parenting - at every intermediate step
\* of p2->append( c ), including the step where the old parent erases c, the
\* node c exists and has a strong holder: the caller's handle or the
\* children of p2; while the old parent runs its remove, p2 already lists c.
HoldersOf(c) == { n \in alive : Listed(n, c) } \cup ({c} \cap held)

ChildAliveAcrossReparenting ==
    InCall("append")
        => /\ Cur.node \in alive
           /\ UseCount(Tree, Cur.node) > 0
           /\ Cur.node \in held \/ Listed(Cur.self, Cur.node)
           /\ (RemoveRunning /\ Receiver(Cur) # Cur.self)
                 => Listed(Cur.self, Cur.node)

\* The old parent A has just erased C during B->append( C ).
ChildAliveAcrossReparentingWitness ==
    /\ InCall("append")
    /\ Cur.self = B /\ Cur.node = C /\ Cur.prev = A
    /\ children[A] = << >>
    /\ parent[C] = None
    /\ HoldersOf(C) = {B, C}
    /\ C \in alive

\* C22: Frame of append - in every reachable state, p->append( c ) changes
\* only the children of p, the parent reference of c and the children of the
\* previous parent of c, from which only c is removed; every other children
\* collection and parent reference, every object and every handle stay.
AppendFrame ==
    \A p \in Nodes, c \in Nodes :
        CanAppend(p, c)
            => LET g == append(Tree, p, c)
                   q == ParentOf(c)
               IN  /\ \A n \in Nodes \ {p, q} : g.ch[n] = children[n]
                   /\ \A n \in Nodes \ {p} : EraseIf(g.ch[n], c) = EraseIf(children[n], c)
                   /\ \A n \in Nodes \ {c} : g.par[n] = parent[n]
                   /\ g.al = alive
                   /\ g.hd = held

\* After append(A,B); append(A,C); append(B,C): C left A, B stayed in A.
AppendFrameWitness ==
    /\ script = 3
    /\ children[A] = << B >>
    /\ children[B] = << C >>
    /\ children[C] = << >>
    /\ parent[B] = A
    /\ parent[C] = B
    /\ parent[A] = None

----------------------------------------------------------------------------
\* C23: No leaked nodes - every live node is a node the caller holds or is
\* reachable from one through children references; so once the caller has
\* dropped every handle, every node is destroyed.
OwnedFromHandles == ReachDown(held, NumNodes)

NoLeakedNodes == alive \subseteq OwnedFromHandles

----------------------------------------------------------------------------
\* C24: Append/remove round trip and remove idempotence - in every reachable
\* state, for a node c without a parent and a node p # c, p->append( c )
\* followed by p->remove( c ) restores the children of every node and leaves
\* c without a parent, and a second p->remove( c ) changes nothing.
AppendRemoveRoundTrip ==
    \A p \in Nodes, c \in Nodes :
        (CanAppend(p, c) /\ p # c /\ ParentOf(c) = None)
            => LET g1 == append(Tree, p, c)
                   g2 == remove(g1, p, c)
                   g3 == remove(g2, p, c)
               IN  /\ ListedIn(g1, p, c)
                   /\ g2.ch = children
                   /\ g2.par[c] = None
                   /\ \A n \in Nodes \ {c} : g2.par[n] = parent[n]
                   /\ g2.al = alive
                   /\ g2.hd = held
                   /\ g3 = g2

\* B->append( C ); B->remove( C ) on the fresh nodes.
AppendRemoveRoundTripWitness ==
    /\ hist = << Call("append", B, C), Call("remove", B, C) >>
    /\ children = [n \in Nodes |-> << >>]
    /\ parent = [n \in Nodes |-> None]
    /\ held = Nodes

----------------------------------------------------------------------------
\* The AsyncAndFuture sample: main polls a future while loadString runs in
\* the thread that std::async started.

\* future_text.wait_for( 0ns ): ready once loadString has returned.
wait_for(a) == IF a.task.pc = "done" THEN "ready" ELSE "timeout"

\* Variant: the future stays connected after its result was taken.
getKeepsValid(a) ==
    [a EXCEPT !.text = a.task.text, !.gets = @ + 1, !.got_at = a.loop_count]

\* future_text.get(): hands over the result and disconnects the future.
get(a) ==
    [a EXCEPT !.text = a.task.text, !.valid = FALSE, !.gets = @ + 1,
              !.got_at = a.loop_count]

AsyncDo(pc, r) ==
    /\ asyncAndFuture.pc = pc
    /\ asyncAndFuture' = r
    /\ UNCHANGED <<treeVars, signalTest, resourceManagement, collections>>

\* future<string> future_text = std::async( std::launch::async, function );
AsyncLaunch ==
    AsyncDo("async", [asyncAndFuture EXCEPT !.pc = "loading", !.valid = TRUE,
                                            !.task.pc = "open"])

\* cout << "Loading" << endl;
AsyncLoading == AsyncDo("loading", [asyncAndFuture EXCEPT !.pc = "while"])

\* while( running )
AsyncWhile ==
    AsyncDo("while", [asyncAndFuture EXCEPT
                         !.pc = IF asyncAndFuture.running THEN "incr" ELSE "finished"])

\* loop_count += 1;
AsyncIncrement ==
    /\ asyncAndFuture.loop_count < MaxLoops
    /\ AsyncDo("incr", [asyncAndFuture EXCEPT !.pc = "valid", !.loop_count = @ + 1])

\* if( future_text.valid() )
AsyncValid ==
    AsyncDo("valid", [asyncAndFuture EXCEPT
                         !.pc = IF asyncAndFuture.valid THEN "wait_for" ELSE "else"])

\* auto status = future_text.wait_for( 0ns );
AsyncWaitFor ==
    AsyncDo("wait_for", [asyncAndFuture EXCEPT !.pc = "status",
                                               !.status = wait_for(asyncAndFuture)])

\* if( status == std::future_status::ready )
AsyncStatus ==
    AsyncDo("status", [asyncAndFuture EXCEPT
                          !.pc = IF asyncAndFuture.status = "ready" THEN "get" ELSE "while"])

\* auto text = future_text.get(); it waits until loadString has returned.
AsyncGet ==
    /\ asyncAndFuture.task.pc = "done"
    /\ AsyncDo("get", [get(asyncAndFuture) EXCEPT !.pc = "print"])

\* cout << "Loaded string: " << endl; cout << text << endl;
AsyncPrint == AsyncDo("print", [asyncAndFuture EXCEPT !.pc = "while"])

\* else { running = false; }
AsyncElse ==
    AsyncDo("else", [asyncAndFuture EXCEPT !.pc = "while", !.running = FALSE])

\* The two closing lines are printed and main returns 0.
AsyncFinished == AsyncDo("finished", [asyncAndFuture EXCEPT !.pc = "done"])

\* loadString, in the other thread.
TaskDo(pc, t) ==
    /\ asyncAndFuture.task.pc = pc
    /\ asyncAndFuture' = [asyncAndFuture EXCEPT !.task = t]
    /\ UNCHANGED <<treeVars, signalTest, resourceManagement, collections>>

\* auto file = ifstream( path.c_str() ); if( file.is_open() )
loadStringOpen(ok, n) ==
    TaskDo("open", [asyncAndFuture.task EXCEPT
                       !.is_open = ok,
                       !.lines = IF ok THEN n ELSE 0,
                       !.pc = IF ok THEN "getline" ELSE "return"])

\* while( getline( file, line ) ) { text += line + "\n"; }
loadStringGetline ==
    LET t == asyncAndFuture.task
    IN  TaskDo("getline",
               IF Len(t.text) < t.lines
               THEN [t EXCEPT !.text = Append(@, Len(@) + 1)]
               ELSE [t EXCEPT !.pc = "close"])

\* file.close();
loadStringClose == TaskDo("close", [asyncAndFuture.task EXCEPT !.pc = "return"])

\* return text; the shared state of the future becomes ready.
loadStringReturn == TaskDo("return", [asyncAndFuture.task EXCEPT !.pc = "done"])

NextAsync ==
    \/ AsyncLaunch
    \/ AsyncLoading
    \/ AsyncWhile
    \/ AsyncIncrement
    \/ AsyncValid
    \/ AsyncWaitFor
    \/ AsyncStatus
    \/ AsyncGet
    \/ AsyncPrint
    \/ AsyncElse
    \/ AsyncFinished
    \/ \E ok \in BOOLEAN, n \in 0..MaxLines : loadStringOpen(ok, n)
    \/ loadStringGetline
    \/ loadStringClose
    \/ loadStringReturn

SpecAsync == Init /\ [][NextAsync]_vars

AsyncTypeOK ==
    /\ asyncAndFuture.running \in BOOLEAN
    /\ asyncAndFuture.loop_count \in 0..MaxLoops
    /\ asyncAndFuture.valid \in BOOLEAN
    /\ asyncAndFuture.status \in {"none", "timeout", "ready"}
    /\ asyncAndFuture.task.lines \in 0..MaxLines

\* C25: Async result is taken exactly once and never by blocking -
\* future_text.get() is called only on a valid future whose zero-wait status
\* is ready, it is called at most once and exactly once in a run that ends,
\* and the loop is left only on an iteration after the one that took the
\* result, so loop_count >= 2 at the exit.
AsyncResultTakenOnce ==
    /\ asyncAndFuture.pc = "get"
          => /\ asyncAndFuture.valid
             /\ asyncAndFuture.status = "ready"
             /\ asyncAndFuture.task.pc = "done"
    /\ asyncAndFuture.gets <= 1
    /\ asyncAndFuture.pc \in {"finished", "done"}
          => /\ asyncAndFuture.gets = 1
             /\ asyncAndFuture.loop_count > asyncAndFuture.got_at
             /\ asyncAndFuture.loop_count >= 2
             /\ asyncAndFuture.text = asyncAndFuture.task.text

\* The file was read while main polled twice; the third iteration left the loop.
AsyncResultTakenOnceWitness ==
    /\ asyncAndFuture.pc = "done"
    /\ asyncAndFuture.gets = 1
    /\ asyncAndFuture.got_at = 2
    /\ asyncAndFuture.loop_count = 3
    /\ asyncAndFuture.text = << 1 >>

----------------------------------------------------------------------------
\* The signal handler test: main installs the handlers and runs the send
\* loop; signals arrive from the broken connection or from other processes.

Signals == {"SIGPIPE", "SIGTERM"}

\* Variant: only the terminate handler is installed.
installTerminateOnly == << "SIGTERM" >>

\* installUnixSignalHandlers: signal(SIGPIPE, ...); signal(SIGTERM, ...);
installUnixSignalHandlers == << "SIGPIPE", "SIGTERM" >>

\* handleBrokenPipeSignal: one line of output.
handleBrokenPipeSignal == << "log" >>

\* Variant: the terminate handler logs and returns.
handleTerminateSignalNoExit == << "log" >>

\* handleTerminateSignal: one line of output, then exit(0).
handleTerminateSignal == << "log", "exit" >>

HandlerBody(sg) ==
    IF sg = "SIGPIPE" THEN handleBrokenPipeSignal ELSE handleTerminateSignal

\* The statements of main that write to cout or cerr.
Printing == {"start", "announce", "print"}

\* The signals whose handler is running; a signal is blocked while its own
\* handler runs (the semantics signal() has on the BSD and glibc builds).
Blocked(r) == { r.handlers[i].sg : i \in 1..Len(r.handlers) }

\* Signal sg is generated for the process in state r.
Deliver(r, sg) ==
    IF sg \in Blocked(r) THEN [r EXCEPT !.pending = @ \cup {sg}]
    ELSE IF r.disposition[sg] = "SIG_DFL"
    THEN [r EXCEPT !.status = "killed", !.cause = sg]
    ELSE [r EXCEPT !.handlers = << [sg |-> sg, i |-> 1] >> \o @]

\* The handler on top has run its last statement: it returns, and a pending
\* instance of its signal is delivered.
Return(r) ==
    LET sg == Head(r.handlers).sg
        r1 == [r EXCEPT !.handlers = Tail(@)]
    IN  IF sg \in r.pending
        THEN Deliver([r1 EXCEPT !.pending = @ \ {sg}], sg)
        ELSE r1

SignalSet(r) ==
    /\ signalTest' = r
    /\ UNCHANGED <<treeVars, asyncAndFuture, resourceManagement, collections>>

\* main runs while the process exists and no handler is running.
MainAt(pc) ==
    /\ signalTest.status = "running"
    /\ signalTest.handlers = << >>
    /\ signalTest.pc = pc

\* cout << "Installing signal handler" << endl;
SignalStartMain == MainAt("start") /\ SignalSet([signalTest EXCEPT !.pc = "install"])

\* installUnixSignalHandlers(): one signal() call after the other.
SignalInstall ==
    /\ MainAt("install")
    /\ LET i == signalTest.installed + 1
       IN  IF i <= Len(installUnixSignalHandlers)
           THEN SignalSet([signalTest EXCEPT
                    !.installed = i,
                    !.disposition[installUnixSignalHandlers[i]] = "handler"])
           ELSE SignalSet([signalTest EXCEPT !.pc = "announce"])

\* cout << "Running bad socket test" << endl;
SignalAnnounce == MainAt("announce") /\ SignalSet([signalTest EXCEPT !.pc = "socket"])

\* if ( (sd = socket(...)) < 0 ) { cerr << "Socket" << endl; abort(); }
SignalSocket(ok) ==
    /\ MainAt("socket")
    /\ SignalSet(IF ok THEN [signalTest EXCEPT !.pc = "inet_aton"]
                 ELSE [signalTest EXCEPT !.status = "aborted"])

\* inet_aton("127.0.0.1", ...) succeeds on this constant.
SignalInetAton == MainAt("inet_aton") /\ SignalSet([signalTest EXCEPT !.pc = "connect"])

\* if ( connect(...) != 0 ) { cerr << ...; abort(); }
SignalConnect(ok) ==
    /\ MainAt("connect")
    /\ SignalSet(IF ok THEN [signalTest EXCEPT !.pc = "send_first", !.peer = "open"]
                 ELSE [signalTest EXCEPT !.status = "aborted"])

\* send(sd, ...): on a connection the peer has closed it can fail, with
\* SIGPIPE generated for the process when the failure is a broken pipe.
Send(r, next, res) ==
    LET r1 == [r EXCEPT !.pc = next, !.send_failed = (res # "ok")]
    IN  IF res = "epipe" THEN Deliver(r1, "SIGPIPE") ELSE r1

SendResults(r) == IF r.peer = "closed" THEN {"ok", "error", "epipe"} ELSE {"ok"}

\* if ( send(sd, "this is a test", 17, 0) < 0 ) { cerr << "send" << endl; }
SignalSendFirst(res) ==
    /\ MainAt("send_first")
    /\ res \in SendResults(signalTest)
    /\ SignalSet(Send(signalTest, "sleep", res))

\* sleep(1);
SignalSleep == MainAt("sleep") /\ SignalSet([signalTest EXCEPT !.pc = "send"])

\* if ( send(...) < 0 ) { cerr << "Error sending data" << endl; }
SignalSend(res) ==
    /\ MainAt("send")
    /\ res \in SendResults(signalTest)
    /\ SignalSet(Send(signalTest, "print", res))

\* cout << "Counting up: " << count << endl;
SignalPrint == MainAt("print") /\ SignalSet([signalTest EXCEPT !.pc = "incr"])

\* count += 1;
SignalIncrement ==
    /\ MainAt("incr")
    /\ signalTest.count < MaxCount
    /\ SignalSet([signalTest EXCEPT !.pc = "sleep", !.count = @ + 1])

\* The running handler executes its next statement or returns.  Its output
\* goes through cout, which is not safe to use in a handler: when main was
\* interrupted inside an output statement the lines can come out mixed.
SignalHandlerStep(mixed) ==
    /\ signalTest.status = "running"
    /\ signalTest.handlers # << >>
    /\ LET f    == Head(signalTest.handlers)
           body == HandlerBody(f.sg)
           go   == [signalTest EXCEPT !.handlers[1].i = @ + 1]
       IN  IF f.i > Len(body)
           THEN ~mixed /\ SignalSet(Return(signalTest))
           ELSE IF body[f.i] = "log"
           THEN /\ mixed => signalTest.pc \in Printing
                /\ SignalSet([go EXCEPT
                       !.ignored = IF f.sg = "SIGPIPE" THEN @ + 1 ELSE @,
                       !.term_logged = (@ \/ f.sg = "SIGTERM"),
                       !.garbled = (@ \/ mixed)])
           ELSE /\ ~mixed
                /\ SignalSet([go EXCEPT !.status = "exited", !.exit_code = 0,
                                        !.cause = f.sg])

\* Another process sends the signal.
SignalKill(sg) ==
    /\ signalTest.status = "running"
    /\ signalTest.sent < MaxSignals
    /\ SignalSet(Deliver([signalTest EXCEPT !.sent = @ + 1], sg))

\* The server closes the connection.
SignalPeerClose ==
    /\ signalTest.status = "running"
    /\ signalTest.peer = "open"
    /\ SignalSet([signalTest EXCEPT !.peer = "closed"])

SignalMain ==
    \/ SignalStartMain
    \/ SignalInstall
    \/ SignalAnnounce
    \/ \E ok \in BOOLEAN : SignalSocket(ok)
    \/ SignalInetAton
    \/ \E ok \in BOOLEAN : SignalConnect(ok)
    \/ \E res \in {"ok", "error", "epipe"} : SignalSendFirst(res)
    \/ SignalSleep
    \/ \E res \in {"ok", "error", "epipe"} : SignalSend(res)
    \/ SignalPrint
    \/ SignalIncrement

SignalHandler == \E mixed \in BOOLEAN : SignalHandlerStep(mixed)

NextSignals ==
    \/ SignalMain
    \/ SignalHandler
    \/ \E sg \in Signals : SignalKill(sg)
    \/ SignalPeerClose

\* The process is scheduled: main and a running handler take their steps.
SpecSignals ==
    Init /\ [][NextSignals]_vars /\ WF_vars(SignalMain) /\ WF_vars(SignalHandler)

SignalTypeOK ==
    /\ signalTest.count \in 0..MaxCount
    /\ signalTest.sent \in 0..MaxSignals
    /\ signalTest.pending \subseteq Signals
    /\ signalTest.status \in {"running", "exited", "aborted", "killed"}
    /\ Len(signalTest.handlers) <= Cardinality(Signals)

\* installUnixSignalHandlers() has returned.
Installed == signalTest.pc \notin {"start", "install"}

InSendLoop == signalTest.pc \in {"sleep", "send", "print", "incr"}

\* C26: SIGPIPE is survived - once installUnixSignalHandlers() has run, no
\* SIGPIPE ends the process, and the send loop keeps counting up: from every
\* point of the loop the count is incremented, unless SIGTERM makes the
\* process exit.
SigpipeDoesNotEndProcess ==
    Installed => ~(signalTest.status # "running" /\ signalTest.cause = "SIGPIPE")

SigpipeSurvived ==
    /\ []SigpipeDoesNotEndProcess
    /\ \A k \in 0..(MaxCount - 1) :
          (InSendLoop /\ signalTest.count = k /\ signalTest.status = "running")
              ~> (signalTest.count > k \/ signalTest.status = "exited")

\* The send of the first loop iteration hit the broken pipe; the handler
\* logged, and the loop counted on.
SigpipeSurvivedWitness ==
    /\ signalTest.status = "running"
    /\ signalTest.pc = "sleep"
    /\ signalTest.count = 1
    /\ signalTest.send_failed
    /\ signalTest.sent = 0
    /\ signalTest.ignored = 1
    /\ signalTest.handlers = << >>

\* C27: SIGTERM exits gracefully - once installUnixSignalHandlers() has run,
\* a delivered SIGTERM leads to the handler logging and the process exiting
\* with status 0, and the process stops in no other way than this or the
\* abort after a failed socket or connect.
StopsOnlyGracefully ==
    (Installed /\ signalTest.status # "running")
        => \/ /\ signalTest.status = "exited"
              /\ signalTest.exit_code = 0
              /\ signalTest.cause = "SIGTERM"
              /\ signalTest.term_logged
           \/ /\ signalTest.status = "aborted"
              /\ signalTest.pc \in {"socket", "connect"}

TerminateDelivered ==
    /\ Installed
    /\ signalTest.status = "running"
    /\ "SIGTERM" \in Blocked(signalTest)

SigtermExitsGracefully ==
    /\ []StopsOnlyGracefully
    /\ TerminateDelivered
          ~> (signalTest.status = "exited" /\ signalTest.exit_code = 0
              /\ signalTest.term_logged)

\* SIGTERM arrived in the second loop iteration, before its send.
SigtermExitsGracefullyWitness ==
    /\ signalTest.status = "exited"
    /\ signalTest.exit_code = 0
    /\ signalTest.cause = "SIGTERM"
    /\ signalTest.term_logged
    /\ signalTest.pc = "send"
    /\ signalTest.count = 1

----------------------------------------------------------------------------
\* The ResourceManagement sample: DummyObjects are created in a scope as a
\* stack object, through make_shared, through unique_ptr and through a raw
\* new, and the scope is left.  main declares one particular scope.

\* DummyObject::DummyObject: *counter += 1;
Construct(r) ==
    [r EXCEPT !.counter = @ + 1, !.created = @ + 1, !.live = @ \cup {r.created + 1}]

\* Variant: the destructor does not touch the counter.
DestroyNoDecrement(r, obj) == [r EXCEPT !.live = @ \ {obj}]

\* DummyObject::~DummyObject: *counter -= 1;
Destroy(r, obj) == [r EXCEPT !.counter = @ - 1, !.live = @ \ {obj}]

\* A local goes out of scope: a stack object and the object of a non-empty
\* unique_ptr or shared_ptr are destroyed, a raw pointer destroys nothing.
ReleaseLocal(r, l) ==
    IF l.kind = "raw" \/ l.obj = 0 THEN r ELSE Destroy(r, l.obj)

ResourceSet(r) ==
    /\ resourceManagement' = r
    /\ UNCHANGED <<treeVars, asyncAndFuture, signalTest, collections>>

\* DummyObject stack( ... ); auto shared = make_shared<DummyObject>( ... );
\* auto unique = std::unique_ptr<DummyObject>( new DummyObject( ... ) );
\* DummyObject *raw = new DummyObject( ... );
ResourceDeclare(kind) ==
    /\ resourceManagement.pc = "scope"
    /\ Len(resourceManagement.locals) < MaxLocals
    /\ LET r == Construct(resourceManagement)
       IN  ResourceSet([r EXCEPT !.locals = Append(@, [kind |-> kind, obj |-> r.created])])

\* shared_ptr<DummyObject> shared_too = std::move( unique_too );
ResourceMove(i) ==
    /\ resourceManagement.pc = "scope"
    /\ Len(resourceManagement.locals) < MaxLocals
    /\ i \in 1..Len(resourceManagement.locals)
    /\ resourceManagement.locals[i].kind = "unique_ptr"
    /\ resourceManagement.locals[i].obj # 0
    /\ ResourceSet([resourceManagement EXCEPT
          !.locals = Append([resourceManagement.locals EXCEPT ![i].obj = 0],
                            [kind |-> "shared_ptr",
                             obj |-> resourceManagement.locals[i].obj])])

\* cout << *object_counter << " element(s) created." << endl;
\* cout << "===Leaving Scope===" << endl;
ResourcePrintCreated ==
    /\ resourceManagement.pc = "scope"
    /\ ResourceSet([resourceManagement EXCEPT
          !.pc = "leaving", !.printed_created = resourceManagement.counter,
          !.scope_was = resourceManagement.locals])

\* The closing brace: the locals go out of scope, the last declared first.
ResourceLeave ==
    /\ resourceManagement.pc = "leaving"
    /\ LET ls == resourceManagement.locals
       IN  IF ls = << >>
           THEN ResourceSet([resourceManagement EXCEPT !.pc = "after"])
           ELSE ResourceSet([ReleaseLocal(resourceManagement, ls[Len(ls)])
                                EXCEPT !.locals = SubSeq(ls, 1, Len(ls) - 1)])

\* cout << *object_counter << " element(s) remaining." << endl; return 0;
ResourcePrintRemaining ==
    /\ resourceManagement.pc = "after"
    /\ ResourceSet([resourceManagement EXCEPT !.pc = "done",
          !.printed_remaining = resourceManagement.counter])

LocalKinds == {"stack", "shared_ptr", "unique_ptr", "raw"}

NextResources ==
    \/ \E kind \in LocalKinds : ResourceDeclare(kind)
    \/ \E i \in 1..MaxLocals : ResourceMove(i)
    \/ ResourcePrintCreated
    \/ ResourceLeave
    \/ ResourcePrintRemaining

SpecResources == Init /\ [][NextResources]_vars

\* The scope of main: stack, shared, unique, unique_too (moved from),
\* shared_too, raw.
MainScope ==
    << [kind |-> "stack", obj |-> 1], [kind |-> "shared_ptr", obj |-> 2],
       [kind |-> "unique_ptr", obj |-> 3], [kind |-> "unique_ptr", obj |-> 0],
       [kind |-> "shared_ptr", obj |-> 4], [kind |-> "raw", obj |-> 5] >>

RawObjects(ls) == { ls[i].obj : i \in { j \in 1..Len(ls) : ls[j].kind = "raw" } }

ScopeEnded == resourceManagement.pc \in {"after", "done"}

\* C28: Object counter tracks live objects and exposes the raw-pointer leak -
\* the counter always equals the number of DummyObjects constructed and not
\* destroyed; after the scope has ended exactly the objects created with a
\* raw new remain; in main the counter is 5 just before the scope ends and 1
\* after it, the remaining object being the one created with raw new.
ObjectCounterTracksLiveObjects ==
    /\ resourceManagement.counter = Cardinality(resourceManagement.live)
    /\ resourceManagement.pc = "scope"
          => resourceManagement.live =
                { resourceManagement.locals[i].obj :
                      i \in 1..Len(resourceManagement.locals) } \ {0}
    /\ ScopeEnded
          => resourceManagement.live = RawObjects(resourceManagement.scope_was)
    /\ resourceManagement.scope_was = MainScope
          => /\ resourceManagement.printed_created = 5
             /\ ScopeEnded => resourceManagement.counter = 1
             /\ ScopeEnded => resourceManagement.live = {5}
             /\ resourceManagement.pc = "done"
                   => resourceManagement.printed_remaining = 1

\* main has run to its end.
ObjectCounterTracksLiveObjectsWitness ==
    /\ resourceManagement.pc = "done"
    /\ resourceManagement.scope_was = MainScope
    /\ resourceManagement.printed_created = 5
    /\ resourceManagement.printed_remaining = 1
    /\ resourceManagement.live = {5}

----------------------------------------------------------------------------
\* The Collections sample: the functions that fill, read and shrink the
\* global numberVector.  main calls vectorAssignment, vectorRetrieval and
\* (in the current version) vectorRemoval in this order; here they are
\* called in any order, each within the preconditions of what it calls
\* except where the sample itself steps outside them.

Versions == {"current", "earlier"}

\* numberVector = { 1, 17.0f, 14.2f, 12.1f, 2, 1.5f, 3.1f, 11.2f } in the
\* current version, { 1, 2, 1.5f, 3 } in the earlier one.
InitializerList(version) ==
    IF version = "current"
    THEN << 10, 170, 142, 121, 20, 15, 31, 112 >>
    ELSE << 10, 20, 15, 30 >>

OutOfRange == -2

Nonsense == -3

\* vector::at( index ): the element, or std::out_of_range.
at(v, index) == IF index < Len(v) THEN v[index + 1] ELSE OutOfRange

\* std::remove_if( begin, end, element > 10.0f ): the kept elements move to
\* the front, the positions after them keep what they held.
Kept(v) == SelectSeq(v, LAMBDA x : ~(x > 100))

remove_if(v) == Kept(v) \o SubSeq(v, Len(Kept(v)) + 1, Len(v))

CollectionsSet(r) ==
    /\ collections' = r
    /\ UNCHANGED <<treeVars, asyncAndFuture, signalTest, resourceManagement>>

CollectionsAt(pc) == collections.status = "running" /\ collections.pc = pc

\* The version of the sample that is built.
CollectionsBuild(version) ==
    /\ CollectionsAt("start")
    /\ CollectionsSet([collections EXCEPT !.pc = "idle", !.version = version])

\* main calls one of the functions.
CollectionsCall(fn) ==
    /\ CollectionsAt("idle")
    /\ collections.calls < MaxCalls
    /\ fn = "vectorRemoval"
          => collections.version = "current" /\ collections.numberVector # << >>
    /\ CollectionsSet([collections EXCEPT
          !.calls = @ + 1,
          !.i = 0,
          !.read = IF fn = "vectorRetrieval" THEN -1 ELSE @,
          !.at5 = IF fn = "vectorRetrieval" THEN -1 ELSE @,
          !.caught = IF fn = "vectorRetrieval" THEN FALSE ELSE @,
          !.pc = CASE fn = "vectorAssignment" -> "assign"
                   [] fn = "vectorRetrieval" -> "for"
                   [] fn = "vectorRemoval" -> "pop_back"])

\* numberVector = { ... };
vectorAssignmentList ==
    /\ CollectionsAt("assign")
    /\ CollectionsSet([collections EXCEPT
          !.numberVector = InitializerList(collections.version),
          !.fresh = TRUE,
          !.pc = IF collections.version = "current" THEN "push_back" ELSE "idle"])

\* numberVector.push_back( 2.2f );
vectorAssignmentPushBack ==
    /\ CollectionsAt("push_back")
    /\ CollectionsSet([collections EXCEPT !.numberVector = Append(@, 22), !.pc = "idle"])

\* for( auto &number : numberVector ) { cout << number ...; }
vectorRetrievalFor ==
    /\ CollectionsAt("for")
    /\ CollectionsSet(IF collections.i < Len(collections.numberVector)
                      THEN [collections EXCEPT !.i = @ + 1]
                      ELSE [collections EXCEPT !.pc = "bracket"])

\* cout << numberVector[5] << endl;  Past the end this reads memory the
\* vector does not own: a nonsense value is printed or the program crashes.
vectorRetrievalBracket(crash) ==
    /\ CollectionsAt("bracket")
    /\ crash => ~(5 < Len(collections.numberVector))
    /\ CollectionsSet(
          IF crash THEN [collections EXCEPT !.status = "crashed"]
          ELSE [collections EXCEPT
                   !.pc = "at0",
                   !.read = IF 5 < Len(collections.numberVector)
                            THEN collections.numberVector[5 + 1] ELSE Nonsense])

\* cout << numberVector.at( 0 ) << endl;  An exception here is caught nowhere.
vectorRetrievalAt0 ==
    /\ CollectionsAt("at0")
    /\ CollectionsSet(IF at(collections.numberVector, 0) = OutOfRange
                      THEN [collections EXCEPT !.status = "terminated"]
                      ELSE [collections EXCEPT !.pc = "try"])

\* try { ...; cout << numberVector.at( 5 ) << endl; }
vectorRetrievalTry ==
    /\ CollectionsAt("try")
    /\ CollectionsSet(IF at(collections.numberVector, 5) = OutOfRange
                      THEN [collections EXCEPT !.pc = "catch"]
                      ELSE [collections EXCEPT
                               !.pc = "front_back",
                               !.at5 = at(collections.numberVector, 5)])

\* catch( std::out_of_range &exc ) { cout << "Exception: out of range: " ... }
vectorRetrievalCatch ==
    /\ CollectionsAt("catch")
    /\ CollectionsSet([collections EXCEPT !.pc = "front_back", !.caught = TRUE])

\* cout << numberVector.front() << ", " << numberVector.back() << endl;
vectorRetrievalFrontBack ==
    /\ CollectionsAt("front_back")
    /\ CollectionsSet([collections EXCEPT !.pc = "idle"])

\* numberVector.pop_back();
vectorRemovalPopBack ==
    /\ CollectionsAt("pop_back")
    /\ CollectionsSet([collections EXCEPT
          !.numberVector = SubSeq(@, 1, Len(@) - 1),
          !.fresh = FALSE,
          !.pc = "remove_if"])

\* auto remove_begin = std::remove_if( ... );
vectorRemovalRemoveIf ==
    /\ CollectionsAt("remove_if")
    /\ CollectionsSet([collections EXCEPT
          !.remove_begin = Len(Kept(collections.numberVector)),
          !.numberVector = remove_if(@),
          !.pc = "erase"])

\* numberVector.erase( remove_begin, numberVector.end() );
vectorRemovalErase ==
    /\ CollectionsAt("erase")
    /\ CollectionsSet([collections EXCEPT
          !.numberVector = SubSeq(@, 1, collections.remove_begin),
          !.i = 0,
          !.pc = "for_removal"])

\* for( auto &number : numberVector ) { cout << number << ", "; }
vectorRemovalFor ==
    /\ CollectionsAt("for_removal")
    /\ CollectionsSet(IF collections.i < Len(collections.numberVector)
                      THEN [collections EXCEPT !.i = @ + 1]
                      ELSE [collections EXCEPT !.pc = "idle"])

VectorFunctions == {"vectorAssignment", "vectorRetrieval", "vectorRemoval"}

NextCollections ==
    \/ \E version \in Versions : CollectionsBuild(version)
    \/ \E fn \in VectorFunctions : CollectionsCall(fn)
    \/ vectorAssignmentList
    \/ vectorAssignmentPushBack
    \/ vectorRetrievalFor
    \/ \E crash \in BOOLEAN : vectorRetrievalBracket(crash)
    \/ vectorRetrievalAt0
    \/ vectorRetrievalTry
    \/ vectorRetrievalCatch
    \/ vectorRetrievalFrontBack
    \/ vectorRemovalPopBack
    \/ vectorRemovalRemoveIf
    \/ vectorRemovalErase
    \/ vectorRemovalFor

SpecCollections == Init /\ [][NextCollections]_vars

CollectionsTypeOK ==
    /\ collections.version \in Versions \cup {"none"}
    /\ collections.calls \in 0..MaxCalls
    /\ collections.status \in {"running", "crashed", "terminated"}
    /\ collections.i \in 0..Len(collections.numberVector)

\* C29: Checked access reports the out-of-range read - when vectorRetrieval
\* runs on numberVector as vectorAssignment left it, numberVector.at( 5 )
\* raises the out-of-range exception and the catch block runs: the try
\* statement is never left without the catch having run.
CheckedAccessReportsOutOfRange ==
    (collections.fresh /\ collections.pc = "front_back") => collections.caught

====
